---- MODULE Spec2Model ----
(***************************************************************************)
(* A model of the Python scripts of ranim:                                 *)
(*   playground/test.py                       the matrix-add benchmark     *)
(*   examples/py/main.py                      the ranimpy example script   *)
(*   packages/ranimpy/examples/hello_ranimpy/main.py   the same, as a      *)
(*                                            function plus a main guard   *)
(* Python lists are objects on a heap: a variable holds an address, a      *)
(* matrix is a list of addresses of row lists.  Sequences are 1-based      *)
(* here where Python's are 0-based.  The native module (ranim / ranimpy:   *)
(* sum_matrix, Timeline, SvgItem, render_timeline) has no source among the *)
(* files; its operations follow the boundary contract of the               *)
(* specification, section 4.1.                                             *)
(***************************************************************************)
EXTENDS Integers, Sequences, FiniteSets, TLC

VARIABLES
    heap,      \* address -> list contents (row: integers; matrix: row addresses)
    a,         \* test.py: the global a (an address)
    b,         \* test.py: the global b (an address)
    ret,       \* the object the last timed call returned (None: nothing yet)
    last,      \* the name of the function called last ("none": nothing yet)
    a0,        \* the contents of a when it was built
    b0,        \* the contents of b when it was built
    calls,     \* per function: its invocations since a and b were built
    results,   \* per function: the contents of the matrix it returned last
    pc,        \* test.py: the position of the benchmark script
    k,         \* test.py: the loop variable of `for k in range(3)`
    v,         \* test.py: which of the three timeit statements is running
    done,      \* test.py: invocations the running timeit has made
    events,    \* test.py: the calls made and the lines printed, in order
    script,    \* which example script runs ("none": a run of test.py)
    step,      \* the example script's position: an index into its statements
    status,    \* "running", "finished" (ran to its end) or "failed" (uncaught error)
    env,       \* the environment: the SVG file and the output directory
    fh,        \* the file object f: "none", "open" or "closed"
    svg,       \* the script's variable svg: the text read, then the SvgItem
    timeline,  \* the script's Timeline object (None: not constructed)
    prev,      \* the Timeline as it was before the last call on it
    error,     \* the error raised (NoError: none)
    steps,     \* the statements and calls executed so far, in order
    artifacts, \* what render_timeline has written
    stdout     \* the lines the example script printed

matVars == <<heap, a, b, ret, last, a0, b0, calls, results>>
benchVars == <<pc, k, v, done, events>>
scriptVars == <<script, step, status, env, fh, svg, timeline, prev, error, steps,
                artifacts, stdout>>
vars == <<heap, a, b, ret, last, a0, b0, calls, results, pc, k, v, done, events,
          script, step, status, env, fh, svg, timeline, prev, error, steps,
          artifacts, stdout>>

\* ------------------------------------------------------------------ bounds

\* The largest number of cells of an input matrix of the free-call model.
MaxCells == 4
\* The largest number of calls in a run of the free-call model.
MaxCalls == 2
\* timeit's number=10000, scaled down: the invocations of one timed variant.
Number == 12
\* The 10 of 10**k, scaled down: the matrices are Base**k x Base**k.
Base == 2

\* ---------------------------------------------------------- program constants

\* for k in range(3)
NumSizes == 3

\* ----------------------------------------------------------------- the heap

None == 0
\* No error was raised.
NoError == "none"
\* No matrix returned yet (no call returns an empty matrix: a has a row).
NoValue == <<>>

Max(S) == CHOOSE x \in S : \A y \in S : y <= x

\* The address of the i-th object allocated on heap h.
Fresh(h, i) == (IF DOMAIN h = {} THEN 0 ELSE Max(DOMAIN h)) + i

\* The contents of the matrix at address m: its rows' contents.
Value(h, m) == [i \in 1..Len(h[m]) |-> h[h[m][i]]]

\* The row objects of the matrix at address m.
Rows(h, m) == {h[m][i] : i \in 1..Len(h[m])}

\* Reference counting: what no root reaches is freed.
Collect(h, roots) ==
    LET live == (roots \ {None}) \cup UNION {Rows(h, m) : m \in roots \ {None}}
    IN  [p \in live |-> h[p]]

\* A list of lists built from the nested sequence M: fresh row lists and a
\* fresh outer list holding them.
NewMatrix(h, M) ==
    LET R == Len(M)
        rowAddr == [i \in 1..R |-> Fresh(h, i)]
        m == Fresh(h, R + 1)
    IN  [h |-> [p \in DOMAIN h \cup {rowAddr[i] : i \in 1..R} \cup {m} |->
                    IF p \in DOMAIN h THEN h[p]
                    ELSE IF p = m THEN rowAddr
                    ELSE M[p - Fresh(h, 0)]],
         r |-> m]

\* ----------------------------------------------------- playground/test.py

\* py_matrix_add with b's row index stuck at 0.
py_matrix_add_value_row0(h, x, y) ==
    [i \in 1..Len(h[x]) |->
        [j \in 1..Len(h[h[x][1]]) |-> h[h[x][i]][j] + h[h[y][1]][j]]]

\* [[a[i][j] + b[i][j] for j in range(len(a[0]))] for i in range(len(a))]
py_matrix_add_value(h, x, y) ==
    [i \in 1..Len(h[x]) |->
        [j \in 1..Len(h[h[x][1]]) |-> h[h[x][i]][j] + h[h[y][i]][j]]]

\* def py_matrix_add(a, b): the comprehension builds new lists.
py_matrix_add(h, x, y) == NewMatrix(h, py_matrix_add_value(h, x, y))

\* A deep copy in place of a.copy(): new row objects too.
list_copy_deep(h, x) == NewMatrix(h, Value(h, x))

\* c = a.copy(): a new outer list holding the same row objects.
list_copy(h, x) ==
    LET c == Fresh(h, 1)
    IN  [h |-> [p \in DOMAIN h \cup {c} |-> IF p = c THEN h[x] ELSE h[p]],
         r |-> c]

\* c[i][j] = a[i][j] + b[i][j]: a store into the row object c[i].
store(h, c, x, y, i, j) ==
    [h EXCEPT ![h[c][i]][j] = h[h[x][i]][j] + h[h[y][i]][j]]

RECURSIVE inner_loop(_, _, _, _, _, _)
\* for j in range(len(a[0])): ...
inner_loop(h, c, x, y, i, j) ==
    IF j > Len(h[h[x][1]]) THEN h
    ELSE inner_loop(store(h, c, x, y, i, j), c, x, y, i, j + 1)

RECURSIVE outer_loop(_, _, _, _, _)
\* for i in range(len(a)): ...
outer_loop(h, c, x, y, i) ==
    IF i > Len(h[x]) THEN h
    ELSE outer_loop(inner_loop(h, c, x, y, i, 1), c, x, y, i + 1)

\* def py_matrix_add_for(a, b)
py_matrix_add_for(h, x, y) ==
    LET c == list_copy(h, x)
    IN  [h |-> outer_loop(c.h, c.r, x, y, 1), r |-> c.r]

\* ranim.sum_matrix(a, b): element-wise addition of two equal-shaped
\* matrices, producing a new matrix of identical shape.
sum_matrix(h, x, y) ==
    NewMatrix(h, [i \in 1..Len(h[x]) |->
                    [j \in 1..Len(h[h[x][i]]) |-> h[h[x][i]][j] + h[h[y][i]][j]]])

\* def rust_matrix_add(a, b): return ranim.sum_matrix(a, b)
rust_matrix_add(h, x, y) == sum_matrix(h, x, y)

\* The script with its second and third timeit statements exchanged.
VariantsSwapped == <<"py_matrix_add", "rust_matrix_add", "py_matrix_add_for">>

\* The three timed callables, in the order the script times them.
Variants == <<"py_matrix_add", "py_matrix_add_for", "rust_matrix_add">>

Fns == {Variants[i] : i \in 1..Len(Variants)}

Apply(f, h, x, y) ==
    CASE f = "py_matrix_add" -> py_matrix_add(h, x, y)
      [] f = "py_matrix_add_for" -> py_matrix_add_for(h, x, y)
      [] f = "rust_matrix_add" -> rust_matrix_add(h, x, y)

\* lambda: f(a, b), called once: the previous call's result has been dropped,
\* f runs on the globals a and b, and its result is what the call returns.
Invoke(f) ==
    LET res == Apply(f, Collect(heap, {a, b}), a, b)
    IN  /\ heap' = res.h
        /\ ret' = res.r
        /\ last' = f
        /\ calls' = [calls EXCEPT ![f] = @ + 1]
        /\ results' = [results EXCEPT ![f] = Value(res.h, res.r)]
        /\ UNCHANGED <<a, b, a0, b0>>

\* No example script runs.
NoScript ==
    /\ script = "none"
    /\ step = 0
    /\ status = "finished"
    /\ env = <<>>
    /\ fh = "none"
    /\ svg = None
    /\ timeline = None
    /\ prev = None
    /\ error = NoError
    /\ steps = <<>>
    /\ artifacts = {}
    /\ stdout = <<>>

\* ------------------------------------------------ the functions, called freely

Vals == {0, 1}

Shapes == {s \in (1..MaxCells) \X (1..MaxCells) : s[1] * s[2] <= MaxCells}

Matrices(s) == [1..s[1] -> [1..s[2] -> Vals]]

InitCalls ==
    /\ \E s \in Shapes : \E A \in Matrices(s), B \in Matrices(s) :
        LET ma == NewMatrix(<<>>, A)
            mb == NewMatrix(ma.h, B)
        IN  /\ heap = mb.h
            /\ a = ma.r
            /\ b = mb.r
            /\ a0 = A
            /\ b0 = B
    /\ ret = None
    /\ last = "none"
    /\ calls = [f \in Fns |-> 0]
    /\ results = [f \in Fns |-> NoValue]
    /\ pc = "calls"
    /\ k = 0
    /\ v = 0
    /\ done = 0
    /\ events = <<>>
    /\ NoScript

RECURSIVE Sum(_, _)
Sum(f, S) == IF S = {} THEN 0 ELSE LET x == CHOOSE x \in S : TRUE
                                   IN  f[x] + Sum(f, S \ {x})

CallPyMatrixAdd ==
    /\ pc = "calls"
    /\ Sum(calls, Fns) < MaxCalls
    /\ Invoke("py_matrix_add")
    /\ UNCHANGED <<benchVars, scriptVars>>

CallPyMatrixAddFor ==
    /\ pc = "calls"
    /\ Sum(calls, Fns) < MaxCalls
    /\ Invoke("py_matrix_add_for")
    /\ UNCHANGED <<benchVars, scriptVars>>

CallRustMatrixAdd ==
    /\ pc = "calls"
    /\ Sum(calls, Fns) < MaxCalls
    /\ Invoke("rust_matrix_add")
    /\ UNCHANGED <<benchVars, scriptVars>>

NextCalls == CallPyMatrixAdd \/ CallPyMatrixAddFor \/ CallRustMatrixAdd

SpecCalls == InitCalls /\ [][NextCalls]_vars

\* ------------------------------------------- the benchmark loop of test.py

RECURSIVE Pow(_, _)
Pow(x, n) == IF n = 0 THEN 1 ELSE x * Pow(x, n - 1)

\* [[i for i in range(10**k)] for j in range(10**k)]
Sequential(n) == [j \in 1..n |-> [i \in 1..n |-> i - 1]]

\* Before the first statement: no global is bound yet.
InitBench ==
    /\ heap = <<>>
    /\ a = None
    /\ b = None
    /\ ret = None
    /\ last = "none"
    /\ a0 = <<>>
    /\ b0 = <<>>
    /\ calls = [f \in Fns |-> 0]
    /\ results = [f \in Fns |-> NoValue]
    /\ pc = "for"
    /\ k = 0
    /\ v = 0
    /\ done = 0
    /\ events = <<>>
    /\ NoScript

\* for k in range(3): print("-"*10); print(f"benchmarking {10**k}x{10**k} matrix...")
AtLoopHead == pc = "for" /\ k < NumSizes

LoopHead ==
    /\ AtLoopHead
    /\ events' = events \o <<<<"print", "----------">>,
                             <<"print", "benchmarking", Pow(Base, k), Pow(Base, k)>>>>
    /\ pc' = "build_a"
    /\ UNCHANGED <<matVars, k, v, done, scriptVars>>

AtBuildA == pc = "build_a"

\* a = [[i for i in range(10**k)] for j in range(10**k)]
BuildA ==
    /\ AtBuildA
    /\ LET m == NewMatrix(heap, Sequential(Pow(Base, k)))
       IN  /\ heap' = Collect(m.h, {m.r, b})
           /\ a' = m.r
    /\ a0' = Sequential(Pow(Base, k))
    /\ ret' = None
    /\ last' = "none"
    /\ pc' = "build_b"
    /\ UNCHANGED <<b, b0, calls, results, k, v, done, events, scriptVars>>

AtBuildB == pc = "build_b"

\* b = [[i for i in range(10**k)] for j in range(10**k)]
BuildB ==
    /\ AtBuildB
    /\ LET m == NewMatrix(heap, Sequential(Pow(Base, k)))
       IN  /\ heap' = Collect(m.h, {a, m.r})
           /\ b' = m.r
    /\ b0' = Sequential(Pow(Base, k))
    /\ calls' = [f \in Fns |-> 0]
    /\ results' = [f \in Fns |-> NoValue]
    /\ pc' = "timeit"
    /\ v' = 1
    /\ done' = 0
    /\ UNCHANGED <<a, a0, ret, last, k, events, scriptVars>>

AtTimedCall == pc = "timeit" /\ done < Number

\* timeit.timeit(lambda: f(a, b), number=10000): one invocation of the lambda.
TimedCall ==
    /\ AtTimedCall
    /\ Invoke(Variants[v])
    /\ done' = done + 1
    /\ events' = Append(events, <<"call", Variants[v], Len(heap[a]), Len(heap[heap[a][1]])>>)
    /\ UNCHANGED <<pc, k, v, scriptVars>>

AtPrintTime == pc = "timeit" /\ done = Number

\* timeit returns after its last invocation; print(f"... time: {py_time}").
\* The elapsed time is wall-clock time and is left out of the line.
PrintTime ==
    /\ AtPrintTime
    /\ events' = Append(events, <<"print", Variants[v], "time">>)
    /\ done' = 0
    /\ IF v < Len(Variants)
       THEN /\ v' = v + 1
            /\ UNCHANGED <<pc, k>>
       ELSE /\ v' = 0
            /\ pc' = "for"
            /\ k' = k + 1
    /\ UNCHANGED <<matVars, scriptVars>>

AtLoopEnd == pc = "for" /\ k >= NumSizes

\* range(3) is exhausted: the script ends.
LoopEnd ==
    /\ AtLoopEnd
    /\ pc' = "end"
    /\ UNCHANGED <<matVars, k, v, done, events, scriptVars>>

\* Some statement of the script can run (every statement's effect is defined
\* wherever its guard holds).
CanStep == AtLoopHead \/ AtBuildA \/ AtBuildB \/ AtTimedCall \/ AtPrintTime \/ AtLoopEnd

NextBench == LoopHead \/ BuildA \/ BuildB \/ TimedCall \/ PrintTime \/ LoopEnd

SpecBench == InitBench /\ [][NextBench]_vars

\* The benchmark and the free calls side by side: a run is one or the other.
InitMatrix == InitCalls \/ InitBench

NextMatrix == NextCalls \/ NextBench

SpecMatrix == InitMatrix /\ [][NextMatrix]_vars

\* --------------------------------------------------- claims: the matrix adds

For == "py_matrix_add_for"
Rust == "rust_matrix_add"

\* C1: the matrix rust_matrix_add(a, b) = sum_matrix(a, b) returns holds
\* a[i][j] + b[i][j] at every index pair, and equals what py_matrix_add
\* computes on the same a and b.
C1_RustAddIsElementwiseSum ==
    last = Rust =>
        /\ Len(heap[ret]) = Len(heap[a])
        /\ \A i \in 1..Len(heap[a]) :
            /\ Len(heap[heap[ret][i]]) = Len(heap[heap[a][i]])
            /\ \A j \in 1..Len(heap[heap[a][i]]) :
                heap[heap[ret][i]][j] = heap[heap[a][i]][j] + heap[heap[b][i]][j]
        /\ Value(heap, ret) = py_matrix_add_value(heap, a, b)

\* C1's case: sum_matrix has returned the sum of two 2-row matrices whose rows
\* differ, and the sum is not a itself.
C1_Witness ==
    /\ last = Rust
    /\ Len(heap[a]) = 2
    /\ b0[1] # b0[2]
    /\ Value(heap, ret) # Value(heap, a)

\* Whether M is the n x n matrix the harness builds: every row is 0..n-1.
IsSequential(M) == Len(M) >= 1 /\ M = Sequential(Len(M))

\* C2: on the matrices the harness builds, one call of py_matrix_add_for and
\* one call of sum_matrix on the same shared a and b return identical values,
\* whichever of the two is called first.
C2_ForAndRustAgree ==
    /\ IsSequential(a0)
    /\ b0 = a0
    /\ calls = [f \in Fns |-> IF f \in {For, Rust} THEN 1 ELSE 0]
    => results[For] = results[Rust]

\* C3: each of the three functions returns a new matrix of the shape of a:
\* neither the returned list nor any of its rows is a, b, or a row of a or b.
C3_ResultIsNewMatrix ==
    last # "none" =>
        /\ Len(heap[ret]) = Len(a0)
        /\ \A i \in 1..Len(heap[ret]) : Len(heap[heap[ret][i]]) = Len(a0[1])
        /\ ({ret} \cup Rows(heap, ret))
             \cap ({a, b} \cup Rows(heap, a) \cup Rows(heap, b)) = {}

\* C4: at the start of every timed invocation a and b hold the rows of
\* sequential integers they were built with.
C4_InputsSameAtEveryInvocation ==
    AtTimedCall =>
        /\ Value(heap, a) = Sequential(Pow(Base, k))
        /\ Value(heap, b) = Sequential(Pow(Base, k))

\* The run the script is to make: per size, two header lines, then per
\* variant its Number calls on matrices of that size and one time line.
RECURSIVE Repeat(_, _)
Repeat(x, n) == IF n = 0 THEN <<>> ELSE <<x>> \o Repeat(x, n - 1)

ExpectedOfSize(n) ==
    <<<<"print", "----------">>, <<"print", "benchmarking", n, n>>>>
    \o Repeat(<<"call", "py_matrix_add", n, n>>, Number)
    \o <<<<"print", "py_matrix_add", "time">>>>
    \o Repeat(<<"call", "py_matrix_add_for", n, n>>, Number)
    \o <<<<"print", "py_matrix_add_for", "time">>>>
    \o Repeat(<<"call", "rust_matrix_add", n, n>>, Number)
    \o <<<<"print", "rust_matrix_add", "time">>>>

Expected == ExpectedOfSize(1) \o ExpectedOfSize(Base) \o ExpectedOfSize(Base * Base)

\* C5: the harness runs the sizes 1, Base, Base^2 in that order; per size it
\* invokes py_matrix_add, py_matrix_add_for, rust_matrix_add, in that order,
\* exactly Number times each, and prints one time line after a variant's
\* invocations and before the next variant starts; after the third size the
\* script ends, and until then it always has a next step.
C5_HarnessSchedule ==
    /\ Len(events) <= Len(Expected)
    /\ events = SubSeq(Expected, 1, Len(events))
    /\ pc = "end" => events = Expected
    /\ pc # "end" => CanStep
    /\ pc = "end" => ~CanStep

\* C5's case: the script has ended after the last line of the third size.
C5_Witness ==
    /\ pc = "end"
    /\ Len(events) = NumSizes * (2 + Len(Variants) * (Number + 1))
    /\ events[Len(events)] = <<"print", "rust_matrix_add", "time">>

\* C10: py_matrix_add_for writes into the row objects of a: after n calls
\* a[i][j] = a0[i][j] + n * b0[i][j], b is unchanged, and the matrix the last
\* call returned is a new outer list holding the very row objects of a.  In
\* the harness rust_matrix_add therefore runs on a0 + Number * b0.
C10_ForAccumulatesIntoA ==
    pc \in {"calls", "timeit"} =>
        /\ \A i \in 1..Len(a0) : \A j \in 1..Len(a0[1]) :
            heap[heap[a][i]][j] = a0[i][j] + calls[For] * b0[i][j]
        /\ Value(heap, b) = b0
        /\ last = For =>
            /\ ret # a
            /\ heap[ret] = heap[a]
            /\ Value(heap, ret) = Value(heap, a)
        /\ (pc = "timeit" /\ Variants[v] = Rust) =>
            /\ calls[For] = Number
            /\ results[Rust] # NoValue =>
                \A i \in 1..Len(a0) : \A j \in 1..Len(a0[1]) :
                    results[Rust][i][j] = a0[i][j] + (Number + 1) * b0[i][j]

\* C10's case: in the harness rust_matrix_add has run on an a that
\* py_matrix_add_for's Number calls changed.
C10_Witness ==
    /\ pc = "timeit"
    /\ last = Rust
    /\ calls[For] = Number
    /\ Value(heap, a) # a0

\* ---------------------------------------------- the engine boundary (ranimpy)

\* The texts an SVG file may hold; validation is the engine's own.
SvgTexts == {"<svg/>", "<svg><path/></svg>", "<svg", "tiger"}

WellFormed(text) == text \in {"<svg/>", "<svg><path/></svg>"}

\* Timeline(): an empty timeline.  Seconds are whole numbers here.
Timeline_new == [shown |-> <<>>, cursor |-> 0]

\* SvgItem(svgText): the item, or ParseError for text that is not well-formed.
SvgItem_new(text) ==
    IF WellFormed(text)
    THEN [err |-> NoError, item |-> [svg |-> text, pos |-> <<0, 0, 0>>]]
    ELSE [err |-> "ParseError", item |-> None]

\* item.shift(offset): translates the item.
SvgItem_shift(item, off) ==
    [item EXCEPT !.pos = <<@[1] + off[1], @[2] + off[2], @[3] + off[3]>>]

\* timeline.show(item): the item becomes visible at the current cursor.
Timeline_show(tl, item) ==
    [tl EXCEPT !.shown = Append(@, [at |-> tl.cursor, item |-> item])]

\* forward without the check of its argument.
Timeline_forward_unchecked(tl, seconds) ==
    [err |-> NoError, tl |-> [tl EXCEPT !.cursor = @ + seconds]]

\* timeline.forward(seconds): advances the cursor; InvalidArgument if negative.
Timeline_forward(tl, seconds) ==
    IF seconds < 0
    THEN [err |-> "InvalidArgument", tl |-> tl]
    ELSE [err |-> NoError, tl |-> [tl EXCEPT !.cursor = @ + seconds]]

\* render_timeline(timeline, dir): reads the timeline and writes artifacts
\* into dir; IOError if dir is not writable.
render_timeline(tl, dir, writable) ==
    IF writable
    THEN [err |-> NoError, tl |-> tl, written |-> {[dir |-> dir, of |-> tl]}]
    ELSE [err |-> "IOError-not-writable", tl |-> tl, written |-> {}]

\* -------------------------------------------------------- the example scripts

Py == "examples/py/main.py"
Hello == "hello_ranimpy/main.py"

\* examples/py/main.py with forward moved behind render_timeline.
ProgramPyForwardLate ==
    <<"Timeline", "open", "read", "exit", "SvgItem", "show",
      "render_timeline", "forward", "print", "print_type">>

\* examples/py/main.py, statement by statement ("exit": the end of the with
\* block, on either path).
ProgramPy ==
    <<"Timeline", "open", "read", "exit", "SvgItem", "show", "forward",
      "render_timeline", "print", "print_type">>

\* hello_ranimpy/main.py: render_timeline(timeline_test(), "./") under the
\* main guard runs the body of timeline_test, its return, then the render.
ProgramHello ==
    <<"Timeline", "open", "read", "exit", "SvgItem", "shift", "show", "forward",
      "return", "render_timeline">>

Program(sc) == IF sc = Py THEN ProgramPy ELSE ProgramHello

\* The statement the script is at.
Cur == IF status = "running" /\ step <= Len(Program(script))
       THEN Program(script)[step] ELSE "none"

\* A script starts at its first statement; the environment is any of: the
\* file missing, unreadable, or holding a text; the directory writable or not.
InitExample ==
    /\ script \in {Py, Hello}
    /\ env \in [file : {"missing", "unreadable"} \cup SvgTexts, writable : BOOLEAN]
    /\ step = 1
    /\ status = "running"
    /\ fh = "none"
    /\ svg = None
    /\ timeline = None
    /\ prev = None
    /\ error = NoError
    /\ steps = <<>>
    /\ artifacts = {}
    /\ stdout = <<>>
    /\ heap = <<>>
    /\ a = None
    /\ b = None
    /\ ret = None
    /\ last = "none"
    /\ a0 = <<>>
    /\ b0 = <<>>
    /\ calls = [f \in Fns |-> 0]
    /\ results = [f \in Fns |-> NoValue]
    /\ pc = "script"
    /\ k = 0
    /\ v = 0
    /\ done = 0
    /\ events = <<>>

\* The statement ran: on to the next one, or off the end of the script.
Advance ==
    /\ step' = step + 1
    /\ status' = IF step = Len(Program(script)) THEN "finished" ELSE "running"

\* An error nothing catches: the script stops where it is.
Raise(kind) ==
    /\ error' = kind
    /\ status' = "failed"
    /\ UNCHANGED step

\* timeline = ranimpy.Timeline()
NewTimeline ==
    /\ Cur = "Timeline"
    /\ steps' = Append(steps, <<"Timeline", None>>)
    /\ timeline' = Timeline_new
    /\ prev' = None
    /\ Advance
    /\ UNCHANGED <<script, env, fh, svg, error, artifacts, stdout,
                 matVars, benchVars>>

\* with open(path) as f: entering the block opens the file, or raises.
OpenFile ==
    /\ Cur = "open"
    /\ steps' = Append(steps, <<"open", None>>)
    /\ IF env.file = "missing"
       THEN /\ Raise("IOError-not-found")
            /\ UNCHANGED fh
       ELSE /\ fh' = "open"
            /\ Advance
            /\ UNCHANGED error
    /\ UNCHANGED <<script, env, svg, timeline, prev, artifacts, stdout,
                 matVars, benchVars>>

\* svg = f.read(): an error raised here leaves the block through its exit.
ReadFile ==
    /\ Cur = "read"
    /\ steps' = Append(steps, <<"read", None>>)
    /\ IF env.file = "unreadable"
       THEN /\ error' = "IOError-read"
            /\ UNCHANGED svg
       ELSE /\ svg' = env.file
            /\ UNCHANGED error
    /\ Advance
    /\ UNCHANGED <<script, env, fh, timeline, prev, artifacts, stdout,
                 matVars, benchVars>>

\* A block that closes the file only when its body ended normally, as
\* f = open(...); svg = f.read(); f.close() would.
ExitWithNoFinally ==
    /\ Cur = "exit"
    /\ steps' = Append(steps, <<"exit", None>>)
    /\ IF error = NoError
       THEN /\ fh' = "closed"
            /\ Advance
       ELSE /\ status' = "failed"
            /\ UNCHANGED <<fh, step>>
    /\ UNCHANGED <<script, env, svg, timeline, prev, error, artifacts, stdout,
                 matVars, benchVars>>

\* The end of the with block: f is closed, and an error raised in the body
\* goes on to the caller.
ExitWith ==
    /\ Cur = "exit"
    /\ steps' = Append(steps, <<"exit", None>>)
    /\ fh' = "closed"
    /\ IF error = NoError
       THEN Advance
       ELSE /\ status' = "failed"
            /\ UNCHANGED step
    /\ UNCHANGED <<script, env, svg, timeline, prev, error, artifacts, stdout,
                 matVars, benchVars>>

\* svg = SvgItem(svg) inside try/except: pass, the error swallowed.
NewSvgItemCaught ==
    /\ Cur = "SvgItem"
    /\ steps' = Append(steps, <<"SvgItem", svg>>)
    /\ LET r == SvgItem_new(svg)
       IN  /\ error' = r.err
           /\ svg' = IF r.err = NoError THEN r.item
                     ELSE [svg |-> svg, pos |-> <<0, 0, 0>>]
           /\ Advance
    /\ UNCHANGED <<script, env, fh, timeline, prev, artifacts, stdout,
                 matVars, benchVars>>

\* svg = ranimpy.SvgItem(svg)
NewSvgItem ==
    /\ Cur = "SvgItem"
    /\ steps' = Append(steps, <<"SvgItem", svg>>)
    /\ LET r == SvgItem_new(svg)
       IN  IF r.err = NoError
           THEN /\ svg' = r.item
                /\ Advance
                /\ UNCHANGED error
           ELSE /\ Raise(r.err)
                /\ UNCHANGED svg
    /\ UNCHANGED <<script, env, fh, timeline, prev, artifacts, stdout,
                 matVars, benchVars>>

\* svg.shift((100, 100, 0))
Shift ==
    /\ Cur = "shift"
    /\ steps' = Append(steps, <<"shift", <<100, 100, 0>>>>)
    /\ svg' = SvgItem_shift(svg, <<100, 100, 0>>)
    /\ Advance
    /\ UNCHANGED <<script, env, fh, timeline, prev, error, artifacts, stdout,
                 matVars, benchVars>>

\* timeline.show(svg)
Show ==
    /\ Cur = "show"
    /\ steps' = Append(steps, <<"show", svg>>)
    /\ prev' = timeline
    /\ timeline' = Timeline_show(timeline, svg)
    /\ Advance
    /\ UNCHANGED <<script, env, fh, svg, error, artifacts, stdout,
                 matVars, benchVars>>

\* timeline.forward(1.0)
Forward ==
    /\ Cur = "forward"
    /\ steps' = Append(steps, <<"forward", 1>>)
    /\ prev' = timeline
    /\ LET r == Timeline_forward(timeline, 1)
       IN  /\ timeline' = r.tl
           /\ IF r.err = NoError
              THEN Advance /\ UNCHANGED error
              ELSE Raise(r.err)
    /\ UNCHANGED <<script, env, fh, svg, artifacts, stdout,
                 matVars, benchVars>>

\* return timeline (timeline_test)
Return ==
    /\ Cur = "return"
    /\ steps' = Append(steps, <<"return", None>>)
    /\ Advance
    /\ UNCHANGED <<script, env, fh, svg, timeline, prev, error, artifacts, stdout,
                 matVars, benchVars>>

\* ranimpy.render_timeline(timeline, "./")
Render ==
    /\ Cur = "render_timeline"
    /\ steps' = Append(steps, <<"render_timeline", "./">>)
    /\ prev' = timeline
    /\ LET r == render_timeline(timeline, "./", env.writable)
       IN  /\ timeline' = r.tl
           /\ artifacts' = artifacts \cup r.written
           /\ IF r.err = NoError
              THEN Advance /\ UNCHANGED error
              ELSE Raise(r.err)
    /\ UNCHANGED <<script, env, fh, svg, stdout,
                 matVars, benchVars>>

\* print(timeline)
PrintTimeline ==
    /\ Cur = "print"
    /\ steps' = Append(steps, <<"print", None>>)
    /\ stdout' = Append(stdout, <<"Timeline object", timeline>>)
    /\ Advance
    /\ UNCHANGED <<script, env, fh, svg, timeline, prev, error, artifacts,
                 matVars, benchVars>>

\* print(type(timeline))
PrintType ==
    /\ Cur = "print_type"
    /\ steps' = Append(steps, <<"print_type", None>>)
    /\ stdout' = Append(stdout, <<"class", "Timeline">>)
    /\ Advance
    /\ UNCHANGED <<script, env, fh, svg, timeline, prev, error, artifacts,
                 matVars, benchVars>>

NextExample ==
    \/ NewTimeline \/ OpenFile \/ ReadFile \/ ExitWith \/ NewSvgItem \/ Shift
    \/ Show \/ Forward \/ Return \/ Render \/ PrintTimeline \/ PrintType

SpecExample == InitExample /\ [][NextExample]_vars

\* ------------------------------------------- the Timeline, called freely

\* The most calls in a run of the free Timeline model.
MaxOps == 3
\* The longest forward, in seconds, either way.
MaxSecs == 2

Items == {SvgItem_new(t).item : t \in {t \in SvgTexts : WellFormed(t)}}

InitTimeline ==
    /\ script = "api"
    /\ env = <<>>
    /\ step = 0
    /\ status = "running"
    /\ fh = "none"
    /\ svg = None
    /\ timeline = Timeline_new
    /\ prev = Timeline_new
    /\ error = NoError
    /\ steps = <<>>
    /\ artifacts = {}
    /\ stdout = <<>>
    /\ heap = <<>>
    /\ a = None
    /\ b = None
    /\ ret = None
    /\ last = "none"
    /\ a0 = <<>>
    /\ b0 = <<>>
    /\ calls = [f \in Fns |-> 0]
    /\ results = [f \in Fns |-> NoValue]
    /\ pc = "script"
    /\ k = 0
    /\ v = 0
    /\ done = 0
    /\ events = <<>>

\* timeline.show(item), for any item
ApiShow ==
    /\ script = "api"
    /\ Len(steps) < MaxOps
    /\ \E item \in Items :
        /\ steps' = Append(steps, <<"show", item>>)
        /\ timeline' = Timeline_show(timeline, item)
    /\ prev' = timeline
    /\ error' = NoError
    /\ UNCHANGED <<script, step, status, env, fh, svg, artifacts, stdout,
                   matVars, benchVars>>

\* timeline.forward(seconds), for any seconds; the caller sees the error
ApiForward ==
    /\ script = "api"
    /\ Len(steps) < MaxOps
    /\ \E seconds \in (0 - MaxSecs)..MaxSecs :
        LET r == Timeline_forward(timeline, seconds)
        IN  /\ steps' = Append(steps, <<"forward", seconds>>)
            /\ timeline' = r.tl
            /\ error' = r.err
    /\ prev' = timeline
    /\ UNCHANGED <<script, step, status, env, fh, svg, artifacts, stdout,
                   matVars, benchVars>>

NextTimeline == ApiShow \/ ApiForward

SpecTimeline == InitTimeline /\ [][NextTimeline]_vars

\* ------------------------------------------- claims: the example scripts

Names(seq) == [i \in 1..Len(seq) |-> seq[i][1]]

Ran(name) == \E i \in 1..Len(steps) : steps[i][1] = name

IsTimelineCall(e) == e[1] \in {"show", "forward", "render_timeline"}

\* C6: in both scripts the Timeline is created empty, then gets exactly one
\* show(svg) (the item shifted by (100, 100, 0) before it in hello_ranimpy)
\* and then exactly one forward(1.0); render_timeline is called only after
\* these, nothing is shown or forwarded after it, and it leaves the shown
\* items and the cursor as they were.
C6_TimelineLifecycle ==
    script \in {Py, Hello} =>
        LET tcalls == SelectSeq(steps, IsTimelineCall)
            shift == IF script = Hello THEN <<100, 100, 0>> ELSE <<0, 0, 0>>
            shown == <<[at |-> 0, item |-> [svg |-> env.file, pos |-> shift]]>>
        IN  /\ Names(tcalls) = SubSeq(<<"show", "forward", "render_timeline">>,
                                      1, Len(tcalls))
            /\ (Ran("Timeline") /\ tcalls = <<>>) => timeline = Timeline_new
            /\ Len(tcalls) >= 1 => tcalls[1][2] = shown[1].item
            /\ Len(tcalls) >= 2 => tcalls[2][2] = 1
            /\ Ran("render_timeline") =>
                /\ timeline = prev
                /\ timeline = [shown |-> shown, cursor |-> 1]

\* C6's case: hello_ranimpy ran to its end and the render wrote its output.
C6_Witness ==
    /\ script = Hello
    /\ status = "finished"
    /\ artifacts # {}

\* C7: the file opened by `with open(...)` is closed on every way out of the
\* block, when read() succeeds and when it raises; it is open only inside
\* the block, and closed before SvgItem, show, forward or render_timeline.
C7_FileHandleReleased ==
    script \in {Py, Hello} =>
        /\ fh = "open" => Cur \in {"read", "exit"}
        /\ status # "running" => fh # "open"
        /\ (Ran("SvgItem") \/ Ran("show") \/ Ran("forward") \/ Ran("render_timeline")
            \/ Cur \in {"SvgItem", "shift", "show", "forward", "render_timeline"})
           => fh = "closed"

\* C7's case: read() raised and the script ended with the file closed.
C7_Witness ==
    /\ script \in {Py, Hello}
    /\ error = "IOError-read"
    /\ status = "failed"
    /\ fh = "closed"

\* The statement an error of this kind is raised by.
RaisedBy(kind) ==
    CASE kind = "IOError-not-found" -> "open"
      [] kind = "IOError-read" -> "read"
      [] kind = "ParseError" -> "SvgItem"
      [] kind = "InvalidArgument" -> "forward"
      [] kind = "IOError-not-writable" -> "render_timeline"

\* C8: an error raised by a statement of an example script ends the script:
\* the statements run in program order, none twice, and once one has failed
\* no later statement runs (after a failed read only the with block's exit):
\* no render_timeline after a file or parse error, no print after a failed
\* render.
C8_ErrorEndsScript ==
    script \in {Py, Hello} =>
        /\ Names(steps) = SubSeq(Program(script), 1, Len(steps))
        /\ error # NoError =>
            LET n == Len(steps)
            IN  /\ n >= 1
                /\ \/ steps[n][1] = RaisedBy(error)
                   \/ /\ error = "IOError-read"
                      /\ n >= 2
                      /\ steps[n][1] = "exit"
                      /\ steps[n - 1][1] = "read"
                /\ status = "failed" \/ Cur = "exit"
                /\ error # "IOError-not-writable" => ~Ran("render_timeline")
                /\ ~Ran("print") /\ ~Ran("print_type")

\* C8's case: examples/py/main.py failed in render_timeline.
C8_Witness ==
    /\ script = Py
    /\ status = "failed"
    /\ error = "IOError-not-writable"
    /\ Ran("forward")

RECURSIVE Advanced(_)
\* The sum of the seconds of the forward calls with seconds >= 0.
Advanced(seq) ==
    IF seq = <<>> THEN 0
    ELSE LET e == seq[Len(seq)]
         IN  Advanced(SubSeq(seq, 1, Len(seq) - 1))
             + (IF e[1] = "forward" /\ e[2] >= 0 THEN e[2] ELSE 0)

\* C9: forward(seconds) with seconds >= 0 advances the cursor by exactly
\* seconds and leaves the shown items alone; with seconds < 0 it fails with
\* InvalidArgument and leaves cursor and shown items alone.  After any calls
\* of show and forward the cursor is the sum of the seconds accepted, and no
\* call lowers it.
C9_ForwardAdvancesCursor ==
    script = "api" =>
        /\ timeline.cursor = Advanced(steps)
        /\ timeline.cursor >= prev.cursor
        /\ (steps # <<>> /\ steps[Len(steps)][1] = "forward") =>
            LET seconds == steps[Len(steps)][2]
            IN  IF seconds >= 0
                THEN /\ error = NoError
                     /\ timeline.cursor = prev.cursor + seconds
                     /\ timeline.shown = prev.shown
                ELSE /\ error = "InvalidArgument"
                     /\ timeline = prev

\* C9's case: a negative forward was refused after an item was shown and the
\* cursor advanced.
C9_Witness ==
    /\ script = "api"
    /\ error = "InvalidArgument"
    /\ timeline.cursor > 0
    /\ Len(timeline.shown) > 0

====
